---------------------------- MODULE Spec2Model ----------------------------
(***************************************************************************)
(* Model of amazon-label-tool.                                             *)
(*                                                                         *)
(*   functions/api/process.js  : the detecting handler (onRequest) and its *)
(*       helpers getTextItemsWithCoords, findLabelsByFnsku and             *)
(*       findTextInLabel;                                                  *)
(*   unnamed/part_000          : the instruction-applying handler          *)
(*       (onRequest) that replays client-computed modifications.           *)
(*                                                                         *)
(* Strings are sequences of one-character strings, so that trim, the       *)
(* whitespace stripping, lower-casing, includes and the identifier regex   *)
(* are computed character by character.  Numbers are integers; the inputs  *)
(* are chosen so that the two divisions of the code (x 0.55 and / 2) are   *)
(* exact.  Infinity is a sentinel far outside every finite value reached.  *)
(***************************************************************************)
EXTENDS Integers, Sequences, FiniteSets, TLC

VARIABLES
    \* ---- the helpers of process.js applied one after the other ----
    phase,        \* "stream" | "items" | "labels" | "areas" | "again"
    blocks,       \* the BT..ET blocks of the page's content stream
    pageHeight,   \* page.getSize().height
    searchText,   \* the searchText argument of findTextInLabel
    textItems,    \* result of getTextItemsWithCoords
    labels,       \* result of findLabelsByFnsku
    sel,          \* index of the label handed to findTextInLabel
    areas,        \* result of findTextInLabel
    areas2,       \* result of a second, identical call
    \* ---- onRequest of process.js (the detecting handler) ----
    dPc,          \* "start" | "pages" | "done"
    dReq,         \* the request: method and form fields
    dDoc,         \* the pages of the uploaded document
    dP,           \* index of the page being processed
    dLabels,      \* labels of that page
    dL,           \* index of the next label of that page
    dOps,         \* per page, the drawRectangle / drawText calls made on it
    dResp,        \* the Response returned
    \* ---- onRequest of part_000 (the instruction-applying handler) ----
    aPc,          \* "start" | "pages" | "done"
    aReq,         \* the request: method and form fields
    aDocPages,    \* pdfDoc.getPages().length
    aI,           \* the loop index i (pages are numbered from 1 here)
    aOps,         \* per page, the drawRectangle / drawText calls made on it
    aResp         \* the Response returned

hvars == <<phase, blocks, pageHeight, searchText, textItems, labels, sel, areas, areas2>>

dvars == <<dPc, dReq, dDoc, dP, dLabels, dL, dOps, dResp>>

avars == <<aPc, aReq, aDocPages, aI, aOps, aResp>>

vars == <<hvars, dvars, avars>>

-----------------------------------------------------------------------------
(* Bounds of the model *)

MaxTokens == 2

MaxPages == 2

MaxOps == 1

-----------------------------------------------------------------------------
(* JavaScript strings *)

WhiteSpace == {" ", "\t", "\n"}

UpperLetters ==
    <<"A","B","C","D","E","F","G","H","I","J","K","L","M",
      "N","O","P","Q","R","S","T","U","V","W","X","Y","Z">>

LowerLetters ==
    <<"a","b","c","d","e","f","g","h","i","j","k","l","m",
      "n","o","p","q","r","s","t","u","v","w","x","y","z">>

Digits == {"0","1","2","3","4","5","6","7","8","9"}

toLowerCaseChar(c) ==
    IF \E i \in 1..26 : UpperLetters[i] = c
    THEN LowerLetters[CHOOSE i \in 1..26 : UpperLetters[i] = c]
    ELSE c

\* String.prototype.toLowerCase
toLowerCase(s) == [i \in 1..Len(s) |-> toLowerCaseChar(s[i])]

IsNotSpace(c) == c \notin WhiteSpace

\* s.replace(/\s+/g, '')
stripSpaces(s) == SelectSeq(s, IsNotSpace)

\* String.prototype.trim
RECURSIVE trimStart(_)
trimStart(s) ==
    IF s # <<>> /\ Head(s) \in WhiteSpace THEN trimStart(Tail(s)) ELSE s

RECURSIVE trimEnd(_)
trimEnd(s) ==
    IF s # <<>> /\ s[Len(s)] \in WhiteSpace
    THEN trimEnd(SubSeq(s, 1, Len(s) - 1))
    ELSE s

trim(s) == trimEnd(trimStart(s))

\* String.prototype.includes
includes(hay, needle) ==
    \E k \in 0..(Len(hay) - Len(needle)) :
        SubSeq(hay, k + 1, k + Len(needle)) = needle

-----------------------------------------------------------------------------
(* FNSKU_REGEX = /^(X00|B0)[A-Z0-9]{8,10}$/ *)

FnskuPrefixes == {<<"X","0","0">>, <<"B","0">>}

FnskuClass == {UpperLetters[i] : i \in 1..26} \cup Digits

\* the length of the run of [A-Z0-9] characters that starts at position p
RECURSIVE ClassRun(_, _)
ClassRun(s, p) ==
    IF p <= Len(s) /\ s[p] \in FnskuClass THEN 1 + ClassRun(s, p + 1) ELSE 0

\* the matcher started at position p: the alternation, then the bounded
\* quantifier (greedy, backtracking down to its minimum), then $.
RegexMatchesAt(s, p) ==
    \E pre \in FnskuPrefixes :
        /\ p + Len(pre) - 1 <= Len(s)
        /\ SubSeq(s, p, p + Len(pre) - 1) = pre
        /\ \E n \in 8..10 :
              /\ n <= ClassRun(s, p + Len(pre))
              /\ p + Len(pre) + n - 1 = Len(s)

\* the pattern without its ^: an attempt at every position
FNSKU_REGEX_unanchored(s) == \E p \in 1..Len(s) : RegexMatchesAt(s, p)

\* ^ pins the only attempt to the first character
FNSKU_REGEX_test(s) == RegexMatchesAt(s, 1)

-----------------------------------------------------------------------------
(* JavaScript numbers: integers, Infinity, -Infinity *)

Infinity == 1000000000

IsFiniteNum(v) == -Infinity < v /\ v < Infinity

Min(a, b) == IF a < b THEN a ELSE b

Max(a, b) == IF a > b THEN a ELSE b

\* a - b where either side may be infinite (Infinity - Infinity, which is
\* NaN, does not arise: an accumulator's min is +Infinity exactly when its
\* max is -Infinity)
jsSub(a, b) ==
    CASE a >= Infinity \/ b <= -Infinity -> Infinity
      [] a <= -Infinity \/ b >= Infinity -> -Infinity
      [] OTHER -> a - b

jsAdd(a, b) ==
    CASE a >= Infinity \/ b >= Infinity -> Infinity
      [] a <= -Infinity \/ b <= -Infinity -> -Infinity
      [] OTHER -> a + b

-----------------------------------------------------------------------------
(* getTextItemsWithCoords *)

\* a block is [hasTm, hasTj, matrix, text]: whether the two regexes of the
\* extractor matched, the six parsed Tm operands and the Tj string.
fontSizeOf(matrix) == IF matrix[1] > 0 THEN matrix[1] ELSE matrix[4]

approxWidth(text, fontSize) == (Len(text) * fontSize * 55) \div 100

blockItem(b) ==
    [str |-> b.text,
     box |-> [x      |-> b.matrix[5],
              y      |-> b.matrix[6],
              width  |-> approxWidth(b.text, fontSizeOf(b.matrix)),
              height |-> fontSizeOf(b.matrix)]]

blockMatched(b) == b.hasTm /\ b.hasTj

RECURSIVE getTextItemsWithCoords(_)
getTextItemsWithCoords(bs) ==
    IF bs = <<>> THEN <<>>
    ELSE IF blockMatched(Head(bs))
         THEN <<blockItem(Head(bs))>> \o getTextItemsWithCoords(Tail(bs))
         ELSE getTextItemsWithCoords(Tail(bs))

-----------------------------------------------------------------------------
(* findLabelsByFnsku *)

transformItem(item, height) ==
    [str |-> item.str,
     box |-> [item.box EXCEPT !.y = height - item.box.y - item.box.height]]

transformedItems(items, height) ==
    [i \in 1..Len(items) |-> transformItem(items[i], height)]

isAnchor(item) == FNSKU_REGEX_test(trim(item.str))

anchorsOf(items, height) == SelectSeq(transformedItems(items, height), isAnchor)

searchBoxOf(anchor) ==
    [minX |-> anchor.box.x - 120, maxX |-> anchor.box.x + 120,
     minY |-> anchor.box.y - 60,  maxY |-> anchor.box.y + 60]

\* the top edge taken for the centre
itemCenterY_top(item) == item.box.y

\* item.box.height / 2 is exact: every height of the model is even
itemCenterY(item) == item.box.y + item.box.height \div 2

\* the window with its boundary included
inSearchBox_inclusive(item, sb) ==
    /\ item.box.x >= sb.minX
    /\ item.box.x <= sb.maxX
    /\ itemCenterY(item) >= sb.minY
    /\ itemCenterY(item) <= sb.maxY

inSearchBox(item, sb) ==
    /\ item.box.x > sb.minX
    /\ item.box.x < sb.maxX
    /\ itemCenterY(item) > sb.minY
    /\ itemCenterY(item) < sb.maxY

labelItemsOf(tItems, anchor) ==
    LET sb == searchBoxOf(anchor)
        keep(item) == inSearchBox(item, sb)
    IN  SelectSeq(tItems, keep)

EmptyAccumulator ==
    [minX |-> Infinity, maxX |-> -Infinity, minY |-> Infinity, maxY |-> -Infinity]

\* the right edge taken without the item's width
accumulate_noWidth(box, item) ==
    [minX |-> Min(box.minX, item.box.x),
     maxX |-> Max(box.maxX, item.box.x),
     minY |-> Min(box.minY, item.box.y),
     maxY |-> Max(box.maxY, item.box.y + item.box.height)]

accumulate(box, item) ==
    [minX |-> Min(box.minX, item.box.x),
     maxX |-> Max(box.maxX, item.box.x + item.box.width),
     minY |-> Min(box.minY, item.box.y),
     maxY |-> Max(box.maxY, item.box.y + item.box.height)]

\* Array.prototype.reduce with accumulate, from the left
RECURSIVE reduceBox(_, _)
reduceBox(items, box) ==
    IF items = <<>> THEN box
    ELSE reduceBox(Tail(items), accumulate(box, Head(items)))

labelOf(tItems, anchor, height) ==
    LET labelItems == labelItemsOf(tItems, anchor)
        labelBox   == reduceBox(labelItems, EmptyAccumulator)
    IN  [box   |-> [x      |-> labelBox.minX,
                    y      |-> jsSub(height, labelBox.maxY),
                    width  |-> jsSub(labelBox.maxX, labelBox.minX),
                    height |-> jsSub(labelBox.maxY, labelBox.minY)],
         items |-> labelItems]

findLabelsByFnsku(items, height) ==
    LET tItems  == transformedItems(items, height)
        anchors == anchorsOf(items, height)
    IN  [k \in 1..Len(anchors) |-> labelOf(tItems, anchors[k], height)]

-----------------------------------------------------------------------------
(* findTextInLabel *)

cleanText(s) == toLowerCase(stripSpaces(s))

\* the containment test the other way round
matchedItemsOf_reversed(label, search) ==
    LET cleanSearchText == cleanText(search)
        hit(item) == includes(cleanText(item.str), cleanSearchText)
    IN  SelectSeq(label.items, hit)

matchedItemsOf(label, search) ==
    LET cleanSearchText == cleanText(search)
        hit(item) == includes(cleanSearchText, cleanText(item.str))
    IN  SelectSeq(label.items, hit)

findTextInLabel(label, search) ==
    LET matchedItems == matchedItemsOf(label, search)
        unionBox     == reduceBox(matchedItems, EmptyAccumulator)
    IN  IF Len(matchedItems) = 0 THEN <<>>
        ELSE << [x      |-> unionBox.minX - 2,
                 y      |-> label.box.height + label.box.y - unionBox.maxY - 2,
                 width  |-> unionBox.maxX - unionBox.minX + 4,
                 height |-> unionBox.maxY - unionBox.minY + 4] >>

-----------------------------------------------------------------------------
(* Inputs of the helper runs *)

TextB0   == <<"B","0","A","B","C","D","E","F","G","H">>
TextSome == <<"S","o","m","e","T","e","x","t">>
TextBlank == <<" ">>

Texts == {TextB0, TextSome, TextBlank}

\* [a b c d] of the Tm operands: font sizes 20 and 120 (the second read
\* from d)
Fonts == {<<20, 0, 0, 20>>, <<0, 0, 0, 120>>}

\* (e, f): the anchor of the scenario, its neighbour, and a position that at
\* font size 20 lies on the lower boundary of the window of an anchor at
\* (100, 700) and on the right boundary of the window of one at (90, 690)
Positions == {<<100, 700>>, <<90, 690>>, <<210, 650>>}

BlockChoices ==
    {[hasTm |-> TRUE, hasTj |-> TRUE,
      matrix |-> <<f[1], f[2], f[3], f[4], p[1], p[2]>>, text |-> t] :
        f \in Fonts, p \in Positions, t \in Texts}
    \* a block without Tm operator, which the extractor skips
    \cup {[hasTm |-> FALSE, hasTj |-> TRUE,
           matrix |-> <<0, 0, 0, 0, 0, 0>>, text |-> TextB0]}
    \* an identifier under a mirrored matrix, whose font size is negative
    \cup {[hasTm |-> TRUE, hasTj |-> TRUE,
           matrix |-> <<-20, 0, 0, -20, 100, 700>>, text |-> TextB0]}

SeqsUpTo(S, n) == UNION {[1..m -> S] : m \in 0..n}

SearchSpaced == <<"S","O","M","E"," ","t","e","x","t">>
SearchPart   == <<"S","o","m","e">>

Searches == {<<>>, SearchSpaced, SearchPart}

PageHeights == {800}

\* texts around the identifier pattern: a prefix and a body of 7, 8, 10 or
\* 11 characters (one with a lower-case letter); the 8-character body also
\* padded with whitespace, behind another character and before one
PatternPrefixes == {<<"B","0">>, <<"X","0","0">>, <<"A","0">>}

Body8 == <<"1","2","3","4","5","6","7","8">>

PatternBodies ==
    {<<"1","2","3","4","5","6","7">>,
     Body8,
     <<"1","2","3","4","5","6","7","a">>,
     <<"A","B","C","D","E","F","G","H","9","0">>,
     <<"A","B","C","D","E","F","G","H","9","0","1">>}

PatternTexts ==
    {pre \o body : pre \in PatternPrefixes, body \in PatternBodies}
    \cup {<<" ">> \o pre \o Body8 \o <<" ", "\n">> : pre \in PatternPrefixes}
    \cup {<<"-">> \o pre \o Body8 : pre \in PatternPrefixes}
    \cup {<<"B","0">> \o Body8 \o <<"-">>}

TextA0 == <<"A","0","1","2","3","4","5","6","7","8">>

PatternBlocks ==
    {[hasTm |-> TRUE, hasTj |-> TRUE,
      matrix |-> <<20, 0, 0, 20, 100, 700>>, text |-> t] : t \in PatternTexts}

-----------------------------------------------------------------------------
(* The helpers applied to one page *)

NoResponse == [status |-> 0, body |-> "none"]

HelpersIdle ==
    /\ phase = "idle"
    /\ blocks = <<>>
    /\ pageHeight = 0
    /\ searchText = <<>>
    /\ textItems = <<>>
    /\ labels = <<>>
    /\ sel = 0
    /\ areas = <<>>
    /\ areas2 = <<>>

DetectIdle ==
    /\ dPc = "idle"
    /\ dReq = [method |-> "none"]
    /\ dDoc = <<>>
    /\ dP = 0
    /\ dLabels = <<>>
    /\ dL = 0
    /\ dOps = <<>>
    /\ dResp = NoResponse

ApplyIdle ==
    /\ aPc = "idle"
    /\ aReq = [method |-> "none"]
    /\ aDocPages = 0
    /\ aI = 0
    /\ aOps = <<>>
    /\ aResp = NoResponse

Init ==
    /\ phase = "stream"
    /\ blocks \in SeqsUpTo(BlockChoices, MaxTokens)
    /\ pageHeight \in PageHeights
    /\ searchText \in Searches
    /\ textItems = <<>>
    /\ labels = <<>>
    /\ sel = 0
    /\ areas = <<>>
    /\ areas2 = <<>>
    /\ DetectIdle
    /\ ApplyIdle

Extract ==
    /\ phase = "stream"
    /\ textItems' = getTextItemsWithCoords(blocks)
    /\ phase' = "items"
    /\ UNCHANGED <<blocks, pageHeight, searchText, labels, sel, areas, areas2>>
    /\ UNCHANGED <<dvars, avars>>

Cluster ==
    /\ phase = "items"
    /\ labels' = findLabelsByFnsku(textItems, pageHeight)
    /\ phase' = "labels"
    /\ UNCHANGED <<blocks, pageHeight, searchText, textItems, sel, areas, areas2>>
    /\ UNCHANGED <<dvars, avars>>

Resolve ==
    /\ phase = "labels"
    /\ \E k \in 1..Len(labels) :
          /\ sel' = k
          /\ areas' = findTextInLabel(labels[k], searchText)
    /\ phase' = "areas"
    /\ UNCHANGED <<blocks, pageHeight, searchText, textItems, labels, areas2>>
    /\ UNCHANGED <<dvars, avars>>

ResolveAgain ==
    /\ phase = "areas"
    /\ areas2' = findTextInLabel(labels[sel], searchText)
    /\ phase' = "again"
    /\ UNCHANGED <<blocks, pageHeight, searchText, textItems, labels, sel, areas>>
    /\ UNCHANGED <<dvars, avars>>

Next == Extract \/ Cluster \/ Resolve \/ ResolveAgain

Spec == Init /\ [][Next]_vars

\* the same helpers on tokens that differ in their text only
InitPattern ==
    /\ phase = "stream"
    /\ blocks \in SeqsUpTo(PatternBlocks, MaxTokens)
    /\ pageHeight \in PageHeights
    /\ searchText = <<>>
    /\ textItems = <<>>
    /\ labels = <<>>
    /\ sel = 0
    /\ areas = <<>>
    /\ areas2 = <<>>
    /\ DetectIdle
    /\ ApplyIdle

SpecPattern == InitPattern /\ [][Next]_vars

-----------------------------------------------------------------------------
(* onRequest of process.js: the detecting handler *)

Blk(fontSize, x, y, t) ==
    [hasTm |-> TRUE, hasTj |-> TRUE,
     matrix |-> <<fontSize, 0, 0, fontSize, x, y>>, text |-> t]

\* content streams of a page: the scenario; the anchor beside a blank token;
\* an anchor of font size 120 alone; the scenario moved up so that the label
\* touches the top of the page; a page without identifier
DetectStreams ==
    {<<Blk(20, 100, 700, TextB0), Blk(20, 90, 690, TextSome)>>,
     <<Blk(20, 100, 700, TextB0), Blk(20, 90, 690, TextBlank)>>,
     <<Blk(120, 100, 600, TextB0)>>,
     <<Blk(20, 100, 780, TextB0), Blk(20, 90, 770, TextSome)>>,
     <<Blk(20, 90, 690, TextSome)>>}

DetectPages == {[blocks |-> b, height |-> 800] : b \in DetectStreams}

\* file: "none" (no field), "string" (a text field), "pdf", "corrupt" (bytes
\* PDFDocument.load rejects); fontSize: what parseInt returned, 0 standing
\* for both of its falsy results (0 and NaN)
DetectRequests ==
    {[method |-> m, file |-> "pdf", textToRemove |-> <<>>,
      addMadeInChina |-> FALSE, fontSize |-> 0] : m \in {"OPTIONS", "GET"}}
    \cup
    {[method |-> "POST", file |-> f, textToRemove |-> t,
      addMadeInChina |-> b, fontSize |-> n] :
        f \in {"none", "string", "pdf", "corrupt"},
        t \in {<<>>, TextSome, TextBlank},
        b \in BOOLEAN, n \in {0, 12}}

InitDetect ==
    /\ dPc = "start"
    /\ dReq \in DetectRequests
    /\ dDoc \in SeqsUpTo(DetectPages, MaxPages)
    /\ dP = 0
    /\ dLabels = <<>>
    /\ dL = 1
    /\ dOps = <<>>
    /\ dResp = NoResponse
    /\ HelpersIdle
    /\ ApplyIdle

\* parseInt(formData.get('fontSize')) || 8
fontSizeOfRequest(req) == IF req.fontSize = 0 THEN 8 ELSE req.fontSize

\* the drawRectangle calls for one label (k names the label in the record)
rectOps(label, k, textToRemove) ==
    IF textToRemove = <<>> THEN <<>>
    ELSE LET removeAreas == findTextInLabel(label, textToRemove)
         IN  [j \in 1..Len(removeAreas) |->
                 [kind |-> "rect", label |-> k,
                  x |-> removeAreas[j].x, y |-> removeAreas[j].y,
                  width |-> removeAreas[j].width, height |-> removeAreas[j].height]]

\* the drawText call for one label; its x is boxX + (boxWidth - textWidth) / 2
\* with textWidth measured by the library's font
textOps(label, k, req) ==
    IF req.addMadeInChina
    THEN << [kind |-> "text", label |-> k,
             boxX |-> label.box.x, boxWidth |-> label.box.width,
             y |-> jsAdd(label.box.y, 2), size |-> fontSizeOfRequest(req)] >>
    ELSE <<>>

DReceive ==
    /\ dPc = "start"
    /\ IF dReq.method = "OPTIONS"
       THEN dResp' = [status |-> 200, body |-> "null"] /\ dPc' = "done"
       ELSE IF dReq.method # "POST"
       THEN dResp' = [status |-> 405, body |-> "Method Not Allowed"] /\ dPc' = "done"
       ELSE IF dReq.file \in {"none", "string"}
       THEN dResp' = [status |-> 400, body |-> "No file uploaded"] /\ dPc' = "done"
       ELSE IF dReq.file = "corrupt"
       THEN dResp' = [status |-> 500, body |-> "error"] /\ dPc' = "done"
       ELSE dResp' = dResp /\ dPc' = "pages"
    /\ dOps' = [i \in 1..Len(dDoc) |-> <<>>]
    /\ UNCHANGED <<dReq, dDoc, dP, dLabels, dL>>
    /\ UNCHANGED <<hvars, avars>>

DStartPage ==
    /\ dPc = "pages"
    /\ dL > Len(dLabels)
    /\ dP < Len(dDoc)
    /\ dP' = dP + 1
    /\ dLabels' = findLabelsByFnsku(getTextItemsWithCoords(dDoc[dP + 1].blocks),
                                    dDoc[dP + 1].height)
    /\ dL' = 1
    /\ UNCHANGED <<dPc, dReq, dDoc, dOps, dResp>>
    /\ UNCHANGED <<hvars, avars>>

DLabel ==
    /\ dPc = "pages"
    /\ dL <= Len(dLabels)
    /\ dOps' = [dOps EXCEPT ![dP] = @ \o rectOps(dLabels[dL], dL, dReq.textToRemove)
                                      \o textOps(dLabels[dL], dL, dReq)]
    /\ dL' = dL + 1
    /\ UNCHANGED <<dPc, dReq, dDoc, dP, dLabels, dResp>>
    /\ UNCHANGED <<hvars, avars>>

DSave ==
    /\ dPc = "pages"
    /\ dL > Len(dLabels)
    /\ dP = Len(dDoc)
    /\ dResp' = [status |-> 200, body |-> "pdf"]
    /\ dPc' = "done"
    /\ UNCHANGED <<dReq, dDoc, dP, dLabels, dL, dOps>>
    /\ UNCHANGED <<hvars, avars>>

NextDetect == DReceive \/ DStartPage \/ DLabel \/ DSave

SpecDetect == InitDetect /\ [][NextDetect]_vars

-----------------------------------------------------------------------------
(* onRequest of part_000: the instruction-applying handler *)

\* the instruction values sent for page i: all different
AreasOf(i, r) ==
    [k \in 1..r |-> [x |-> 100 * i + 10 * k, y |-> 50, width |-> 40, height |-> 12]]

TextsOf(i, t) ==
    [k \in 1..t |-> [text |-> "Made in China", x |-> 100 * i + 10 * k,
                     y |-> 20, fontSize |-> 8]]

AbsentEntry ==
    [present |-> FALSE, hasRemoveAreas |-> FALSE, removeAreas |-> <<>>,
     hasAddText |-> FALSE, addText |-> <<>>]

\* what pages[i] may be: absent (a hole, null), or an object with or without
\* each of its two fields
EntryChoices(i) ==
    {AbsentEntry} \cup
    {[present |-> TRUE,
      hasRemoveAreas |-> hr, removeAreas |-> IF hr THEN AreasOf(i, r) ELSE <<>>,
      hasAddText |-> ha, addText |-> IF ha THEN TextsOf(i, t) ELSE <<>>] :
        hr \in BOOLEAN, ha \in BOOLEAN, r \in 0..MaxOps, t \in 0..MaxOps}

AllEntries == UNION {EntryChoices(i) : i \in 1..MaxPages}

PagesArrays ==
    UNION {{f \in [1..m -> AllEntries] : \A i \in 1..m : f[i] \in EntryChoices(i)} :
             m \in 0..MaxPages}

\* the 'modifications' form field: missing, not JSON, JSON without 'pages',
\* or JSON with a 'pages' array
Payloads ==
    {[kind |-> k, pages |-> <<>>] : k \in {"missing", "unparseable", "noPages"}}
    \cup {[kind |-> "pages", pages |-> ps] : ps \in PagesArrays}

ApplyRequests ==
    {[method |-> m, file |-> "pdf", modifications |-> [kind |-> "missing", pages |-> <<>>]] :
        m \in {"OPTIONS", "GET"}}
    \cup
    {[method |-> "POST", file |-> f, modifications |-> [kind |-> "noPages", pages |-> <<>>]] :
        f \in {"none", "string", "corrupt"}}
    \cup
    {[method |-> "POST", file |-> "pdf", modifications |-> m] : m \in Payloads}

\* a document has at least one page
InitApply ==
    /\ aPc = "start"
    /\ aReq \in ApplyRequests
    /\ aDocPages \in 1..MaxPages
    /\ aI = 1
    /\ aOps = <<>>
    /\ aResp = NoResponse
    /\ HelpersIdle
    /\ DetectIdle

\* the entry after the page's own
pageModOf_shifted(mods, i) ==
    IF i + 1 <= Len(mods.pages) THEN mods.pages[i + 1] ELSE AbsentEntry

\* pages[i] of the parsed payload
pageModOf(mods, i) == IF i <= Len(mods.pages) THEN mods.pages[i] ELSE AbsentEntry

removeOps(pageMod) ==
    [k \in 1..Len(pageMod.removeAreas) |->
        [kind |-> "rect", x |-> pageMod.removeAreas[k].x, y |-> pageMod.removeAreas[k].y,
         width |-> pageMod.removeAreas[k].width, height |-> pageMod.removeAreas[k].height]]

\* drawText is centred on textInfo.x: its x is centre - textWidth / 2 with
\* textWidth measured by the library's font
addOps(pageMod) ==
    [k \in 1..Len(pageMod.addText) |->
        [kind |-> "text", text |-> pageMod.addText[k].text,
         centre |-> pageMod.addText[k].x, y |-> pageMod.addText[k].y,
         size |-> pageMod.addText[k].fontSize]]

ServerError == [status |-> 500, body |-> "error"]

AReceive ==
    /\ aPc = "start"
    /\ IF aReq.method = "OPTIONS"
       THEN aResp' = [status |-> 200, body |-> "null"] /\ aPc' = "done"
       ELSE IF aReq.method # "POST"
       THEN aResp' = [status |-> 405, body |-> "Method Not Allowed"] /\ aPc' = "done"
       ELSE IF aReq.file \in {"none", "string"} \/ aReq.modifications.kind = "missing"
       THEN aResp' = [status |-> 400, body |-> "error"] /\ aPc' = "done"
       ELSE IF aReq.modifications.kind = "unparseable" \/ aReq.file = "corrupt"
       THEN aResp' = ServerError /\ aPc' = "done"
       ELSE aResp' = aResp /\ aPc' = "pages"
    /\ aOps' = [i \in 1..aDocPages |-> <<>>]
    /\ UNCHANGED <<aReq, aDocPages, aI>>
    /\ UNCHANGED <<hvars, dvars>>

\* one iteration of the loop over the pages; a TypeError (pages undefined, or
\* forEach of an undefined field) leaves the loop for the catch block
APage ==
    /\ aPc = "pages"
    /\ aI <= aDocPages
    /\ LET pageMod == pageModOf(aReq.modifications, aI)
       IN  IF aReq.modifications.kind = "noPages"
           THEN aResp' = ServerError /\ aPc' = "done" /\ UNCHANGED <<aI, aOps>>
           ELSE IF ~pageMod.present
           THEN aI' = aI + 1 /\ UNCHANGED <<aPc, aOps, aResp>>
           ELSE IF ~pageMod.hasRemoveAreas
           THEN aResp' = ServerError /\ aPc' = "done" /\ UNCHANGED <<aI, aOps>>
           ELSE IF ~pageMod.hasAddText
           THEN /\ aOps' = [aOps EXCEPT ![aI] = @ \o removeOps(pageMod)]
                /\ aResp' = ServerError /\ aPc' = "done" /\ UNCHANGED aI
           ELSE /\ aOps' = [aOps EXCEPT ![aI] = @ \o removeOps(pageMod) \o addOps(pageMod)]
                /\ aI' = aI + 1
                /\ UNCHANGED <<aPc, aResp>>
    /\ UNCHANGED <<aReq, aDocPages>>
    /\ UNCHANGED <<hvars, dvars>>

ASave ==
    /\ aPc = "pages"
    /\ aI > aDocPages
    /\ aResp' = [status |-> 200, body |-> "pdf"]
    /\ aPc' = "done"
    /\ UNCHANGED <<aReq, aDocPages, aI, aOps>>
    /\ UNCHANGED <<hvars, dvars>>

NextApply == AReceive \/ APage \/ ASave

SpecApply == InitApply /\ [][NextApply]_vars

-----------------------------------------------------------------------------
(* What the claims speak of, stated from the extracted tokens (textItems,   *)
(* in extraction coordinates) without the helpers of the code.              *)

Clustered == phase \in {"labels", "areas", "again"}

AlnumUpper ==
    {"A","B","C","D","E","F","G","H","I","J","K","L","M","N","O","P","Q","R",
     "S","T","U","V","W","X","Y","Z","0","1","2","3","4","5","6","7","8","9"}

\* "X00" or "B0" followed by 8 to 10 characters of A-Z / 0-9, and nothing else
IsIdentifier(t) ==
    \E pre \in {<<"X","0","0">>, <<"B","0">>} :
        /\ Len(t) - Len(pre) \in 8..10
        /\ \A i \in 1..Len(pre) : t[i] = pre[i]
        /\ \A i \in (Len(pre) + 1)..Len(t) : t[i] \in AlnumUpper

\* needle occurs in hay
Contains(hay, needle) ==
    \E from \in 1..(Len(hay) + 1) :
        /\ from + Len(needle) - 1 <= Len(hay)
        /\ \A i \in 1..Len(needle) : hay[from + i - 1] = needle[i]

\* the k-th smallest member of a set of indices
KthOf(S, k) == CHOOSE i \in S : Cardinality({j \in S : j < i}) = k - 1

\* the tokens, by index, whose trimmed text is an identifier
AnchorIdx == {i \in 1..Len(textItems) : IsIdentifier(trim(textItems[i].str))}

\* a token re-expressed with y' = pageHeight - y - height
TopLeft(tok) ==
    [str |-> tok.str,
     box |-> [x |-> tok.box.x, y |-> pageHeight - tok.box.y - tok.box.height,
              width |-> tok.box.width, height |-> tok.box.height]]

\* the window rule, with the vertical centre compared in half units
InWindow(tok, anc) ==
    LET t == TopLeft(tok).box
        a == TopLeft(anc).box
    IN  /\ a.x - 120 < t.x /\ t.x < a.x + 120
        /\ 2 * (a.y - 60) < 2 * t.y + t.height
        /\ 2 * t.y + t.height < 2 * (a.y + 60)

WindowIdx(a) == {i \in 1..Len(textItems) : InWindow(textItems[i], textItems[a])}

WindowItems(a) ==
    [j \in 1..Cardinality(WindowIdx(a)) |-> TopLeft(textItems[KthOf(WindowIdx(a), j)])]

-----------------------------------------------------------------------------
\* C1: in the instruction-applying handler, a request whose modification
\* payload is malformed ('modifications' missing, not parseable, without
\* 'pages', or with a page entry lacking 'removeAreas' or 'addText') ends
\* with an error response, and no drawRectangle or drawText call has been
\* made on any page before the error is reported.
Malformed(mods) ==
    \/ mods.kind \in {"missing", "unparseable", "noPages"}
    \/ \E i \in 1..Len(mods.pages) :
          /\ mods.pages[i].present
          /\ ~mods.pages[i].hasRemoveAreas \/ ~mods.pages[i].hasAddText

Uploaded == aReq.method = "POST" /\ aReq.file = "pdf"

\* C1: a request with a malformed modification payload ends with an error
\* response and with no drawing call made on any page.
C1_MalformedRejectedUntouched ==
    (aPc = "done" /\ Uploaded /\ Malformed(aReq.modifications)) =>
        /\ aResp.status \in {400, 500}
        /\ \A i \in 1..Len(aOps) : aOps[i] = <<>>

-----------------------------------------------------------------------------
\* C2: for every document and every instruction set (each entry present
\* carrying both of its fields), the drawing operations applied to page i
\* are exactly those of modifications.pages[i]: one white rectangle per
\* entry of its removeAreas, then one text per entry of its addText, nothing
\* from another index; a page whose entry is omitted or present-but-empty
\* receives none, and the request succeeds with the saved document.
WellFormed(mods) == mods.kind = "pages" /\ ~Malformed(mods)

ExpectedOps(i) ==
    LET ps == aReq.modifications.pages
    IN  IF i > Len(ps) \/ ~ps[i].present THEN <<>>
        ELSE LET ra == ps[i].removeAreas
                 at == ps[i].addText
             IN  [k \in 1..(Len(ra) + Len(at)) |->
                    IF k <= Len(ra)
                    THEN [kind |-> "rect", x |-> ra[k].x, y |-> ra[k].y,
                          width |-> ra[k].width, height |-> ra[k].height]
                    ELSE [kind |-> "text", text |-> at[k - Len(ra)].text,
                          centre |-> at[k - Len(ra)].x, y |-> at[k - Len(ra)].y,
                          size |-> at[k - Len(ra)].fontSize]]

\* C2: for a well-formed instruction set, page i has received exactly the
\* operations of pages[i] once the loop is past it, none before, and the
\* request ends with the saved document.
C2_OpsOfOwnEntry ==
    (aPc \in {"pages", "done"} /\ Uploaded /\ WellFormed(aReq.modifications)) =>
        /\ aPc = "pages" =>
              \A i \in 1..aDocPages :
                  aOps[i] = IF i < aI THEN ExpectedOps(i) ELSE <<>>
        /\ aPc = "done" =>
              /\ aResp = [status |-> 200, body |-> "pdf"]
              /\ \A i \in 1..aDocPages : aOps[i] = ExpectedOps(i)

\* two pages saved: the first entry present but empty, the second with a
\* rectangle and a text
C2_Witness ==
    /\ aPc = "done" /\ aResp.status = 200
    /\ aDocPages = 2 /\ Len(aReq.modifications.pages) = 2
    /\ aReq.modifications.pages[1].present
    /\ aOps[1] = <<>>
    /\ Len(aOps[2]) = 2
    /\ aOps[2][1].kind = "rect" /\ aOps[2][2].kind = "text"

-----------------------------------------------------------------------------
\* C3: findLabelsByFnsku returns exactly one Label per token whose trimmed
\* text fully matches the identifier pattern, in token order (the k-th Label
\* is the one built around the k-th such token), and none for any other
\* token.
C3_OneLabelPerIdentifier ==
    Clustered =>
        /\ Len(labels) = Cardinality(AnchorIdx)
        /\ \A k \in 1..Len(labels) :
              k <= Cardinality(AnchorIdx) =>
                  labels[k] = labelOf(transformedItems(textItems, pageHeight),
                                      TopLeft(textItems[KthOf(AnchorIdx, k)]),
                                      pageHeight)
        /\ \A i \in 1..Len(textItems) :
              \/ i \notin AnchorIdx
              \/ /\ textItems[i].str # TextA0
                 /\ ~Contains(textItems[i].str, <<"-">>)

\* two identifiers at the same place, one of them padded with whitespace,
\* give two Labels
C3_Witness ==
    /\ Clustered
    /\ Len(textItems) = 2 /\ Len(labels) = 2
    /\ textItems[1].box.x = textItems[2].box.x
    /\ textItems[1].box.y = textItems[2].box.y
    /\ Head(textItems[1].str) = " "
    /\ Head(textItems[2].str) = "X"

-----------------------------------------------------------------------------
\* C4 (as amended): a token is an item of an anchor's Label iff, in
\* top-left-origin coordinates, its x is strictly between anchor.x - 120 and
\* anchor.x + 120 and its vertical centre strictly between anchor.y' - 60 and
\* anchor.y' + 60; items keep the stream order.  In the scenario (B0ABCDEFGH
\* at (100,700), SomeText at (90,690), page height 800) both tokens are
\* items of the single Label provided the estimated heights h (anchor) and
\* h2 satisfy -120 < h < 120 and -70 < h - h2/2 < 50.
IsScenario ==
    /\ pageHeight = 800
    /\ Len(textItems) = 2
    /\ textItems[1].str = TextB0 /\ textItems[1].box.x = 100 /\ textItems[1].box.y = 700
    /\ textItems[2].str = TextSome /\ textItems[2].box.x = 90 /\ textItems[2].box.y = 690

ScenarioHeightsFit ==
    LET h  == textItems[1].box.height
        h2 == textItems[2].box.height
    IN  /\ -120 < h /\ h < 120
        /\ -140 < 2 * h - h2 /\ 2 * h - h2 < 100

ScenarioBothItems ==
    /\ Len(labels) = 1
    /\ labels[1].items = <<TopLeft(textItems[1]), TopLeft(textItems[2])>>

\* C4 (as amended): the items of the k-th Label are the tokens in the window
\* of the k-th anchor, in stream order; the scenario yields both tokens when
\* the heights fit.
C4_WindowMembership ==
    Clustered =>
        /\ \A k \in 1..Len(labels) :
              k <= Cardinality(AnchorIdx) =>
                  labels[k].items = WindowItems(KthOf(AnchorIdx, k))
        /\ (IsScenario /\ ScenarioHeightsFit) => ScenarioBothItems

\* C4 as claimed: in the scenario both tokens are items of the single Label,
\* whatever the tokens' estimated heights.
C4_ScenarioAnyHeight ==
    (Clustered /\ IsScenario) => ScenarioBothItems

\* the scenario, both tokens at font size 20
C4_Witness ==
    /\ Clustered
    /\ IsScenario /\ ScenarioHeightsFit /\ ScenarioBothItems
    /\ textItems[1].box.height = 20 /\ textItems[2].box.height = 20

-----------------------------------------------------------------------------
\* C5 (as amended): the box of a Label with items is a bounding box of them:
\* horizontally box.x <= item.box.x and box.x + box.width >= item.box.x +
\* item.box.width; vertically it bounds the items at their extraction
\* coordinates (origin bottom-left), y = pageHeight - item.box.y -
\* item.box.height: box.y <= y and box.y + box.height >= y + item.box.height.
C5_BoundingBox ==
    Clustered =>
        \A k \in 1..Len(labels) : \A j \in 1..Len(labels[k].items) :
            LET b  == labels[k].box
                it == labels[k].items[j].box
                y  == pageHeight - it.y - it.height
            IN  /\ b.x <= it.x
                /\ b.x + b.width >= it.x + it.width
                /\ b.y <= y
                /\ b.y + b.height >= y + it.height

\* C5 as claimed: the vertical bounds hold against item.box.y of the Label's
\* own items.
C5_BoundingBoxSameFrame ==
    Clustered =>
        \A k \in 1..Len(labels) : \A j \in 1..Len(labels[k].items) :
            LET b  == labels[k].box
                it == labels[k].items[j].box
            IN  /\ b.x <= it.x
                /\ b.x + b.width >= it.x + it.width
                /\ b.y <= it.y
                /\ b.y + b.height >= it.y + it.height

\* a Label of two items that differ in x, in y and in size
C5_Witness ==
    /\ Clustered
    /\ \E k \in 1..Len(labels) :
          /\ Len(labels[k].items) = 2
          /\ labels[k].items[1].box.x # labels[k].items[2].box.x
          /\ labels[k].items[1].box.y # labels[k].items[2].box.y
          /\ labels[k].box.width > labels[k].items[1].box.width
          /\ labels[k].box.width > labels[k].items[2].box.width

-----------------------------------------------------------------------------
\* C6: findTextInLabel matches a token iff the search string, stripped of
\* whitespace and lower-cased, contains the token's text normalised the same
\* way; no match gives the empty list; otherwise exactly one Rect with
\* x = unionMinX - 2, width = unionMaxX - unionMinX + 4, height = unionMaxY -
\* unionMinY + 4, y = label.box.height + label.box.y - unionMaxY - 2; a
\* second call on the same Label and search string yields the same result.
Normalised(s) ==
    LET kept == {i \in 1..Len(s) : s[i] \notin {" ", "\t", "\n"}}
    IN  [j \in 1..Cardinality(kept) |-> toLowerCaseChar(s[KthOf(kept, j)])]

MatchedIdx(label, search) ==
    {i \in 1..Len(label.items) :
        Contains(Normalised(search), Normalised(label.items[i].str))}

SetMin(S) == CHOOSE v \in S : \A w \in S : v <= w

SetMax(S) == CHOOSE v \in S : \A w \in S : v >= w

ReferenceAreas(label, search) ==
    LET M == MatchedIdx(label, search)
        unionMinX == SetMin({label.items[i].box.x : i \in M})
        unionMaxX == SetMax({label.items[i].box.x + label.items[i].box.width : i \in M})
        unionMinY == SetMin({label.items[i].box.y : i \in M})
        unionMaxY == SetMax({label.items[i].box.y + label.items[i].box.height : i \in M})
    IN  IF M = {} THEN <<>>
        ELSE << [x      |-> unionMinX - 2,
                 y      |-> label.box.height + label.box.y - unionMaxY - 2,
                 width  |-> (unionMaxX - unionMinX) + 4,
                 height |-> (unionMaxY - unionMinY) + 4] >>

-----------------------------------------------------------------------------
\* C7: with an empty search string, removal-area computation yields no Rect
\* for any Label, one holding a token of empty or whitespace-only text
\* included.
\* and the detecting handler draws no white rectangle on any page when
\* textToRemove is empty.
EmptySearchNoAreaComputed ==
    (phase \in {"areas", "again"} /\ searchText = <<>>) => areas = <<>>

EmptySearchNoRectDrawn ==
    (dPc \in {"pages", "done"} /\ dReq.textToRemove = <<>>) =>
        \A p \in 1..Len(dOps) : \A j \in 1..Len(dOps[p]) : dOps[p][j].kind # "rect"

\* C7: an empty search string produces no removal area, neither from
\* findTextInLabel nor as a rectangle drawn by the detecting handler.
C7_EmptySearchNoArea == EmptySearchNoAreaComputed /\ EmptySearchNoRectDrawn

-----------------------------------------------------------------------------
\* C8: every Label box returned by findLabelsByFnsku and every removal Rect
\* returned by findTextInLabel has finite coordinates with width >= 0 and
\* height >= 0.
RectInvariant(r) ==
    /\ IsFiniteNum(r.x) /\ IsFiniteNum(r.y)
    /\ IsFiniteNum(r.width) /\ IsFiniteNum(r.height)
    /\ r.width >= 0 /\ r.height >= 0

\* C8: every Label box and every removal Rect is finite with non-negative
\* width and height.
C8_RectInvariant ==
    /\ \A k \in 1..Len(labels) : RectInvariant(labels[k].box)
    /\ \A k \in 1..Len(areas) : RectInvariant(areas[k])

-----------------------------------------------------------------------------
\* C9 (as amended): a Label contains its own anchor token among its items
\* exactly when the anchor's estimated height h satisfies -120 < h < 120; in
\* particular no Label whose anchor has such a height is empty.
AnchorIsItem(k) ==
    \E j \in 1..Len(labels[k].items) :
        labels[k].items[j] = TopLeft(textItems[KthOf(AnchorIdx, k)])

AnchorHeight(k) == textItems[KthOf(AnchorIdx, k)].box.height

\* C9 (as amended): the anchor is an item of its own Label iff its height h
\* satisfies -120 < h < 120, and then the Label is not empty.
C9_AnchorIsItem ==
    Clustered =>
        \A k \in 1..Len(labels) :
            k <= Cardinality(AnchorIdx) =>
                /\ AnchorIsItem(k) <=> (-120 < AnchorHeight(k) /\ AnchorHeight(k) < 120)
                /\ (-120 < AnchorHeight(k) /\ AnchorHeight(k) < 120)
                      => labels[k].items # <<>>

\* C9 as claimed: every Label contains its own anchor, whatever the anchor's
\* estimated height, so no Label has an empty items sequence.
C9_AnchorAlwaysItem ==
    Clustered =>
        \A k \in 1..Len(labels) :
            k <= Cardinality(AnchorIdx) =>
                AnchorIsItem(k) /\ labels[k].items # <<>>

\* an anchor of ordinary height next to one of height 120
C9_Witness ==
    /\ Clustered
    /\ Len(labels) = 2 /\ Cardinality(AnchorIdx) = 2
    /\ AnchorIsItem(1) /\ AnchorHeight(1) = 20
    /\ ~AnchorIsItem(2) /\ AnchorHeight(2) = 120

-----------------------------------------------------------------------------
\* C10: in the detecting handler, the white rectangle passed to
\* page.drawRectangle for a Label covers, in page coordinates (origin
\* bottom-left), the box at which each matched token was extracted, expanded
\* by 2 units on every side, wherever the label sits on the page.
Covers(rect, item, height) ==
    LET tokenY == height - item.box.y - item.box.height
    IN  /\ rect.x <= item.box.x - 2
        /\ rect.x + rect.width >= item.box.x + item.box.width + 2
        /\ rect.y <= tokenY - 2
        /\ rect.y + rect.height >= tokenY + item.box.height + 2

\* C10: every rectangle drawn on the current page covers each token its
\* Label matched to textToRemove, at the token's extraction coordinates,
\* with a margin of 2.
C10_RectangleCoversToken ==
    (dPc = "pages" /\ dP >= 1) =>
        \A j \in 1..Len(dOps[dP]) :
            dOps[dP][j].kind = "rect" =>
                \A m \in 1..Len(dLabels[dOps[dP][j].label].items) :
                    LET item == dLabels[dOps[dP][j].label].items[m]
                    IN  Contains(Normalised(dReq.textToRemove), Normalised(item.str))
                            => Covers(dOps[dP][j], item, dDoc[dP].height)

\* the rectangle does cover the token when the label touches the page's top
C10_CoveredAtTop ==
    /\ dPc = "pages" /\ dP >= 1
    /\ dDoc[dP].height = 800
    /\ \E j \in 1..Len(dOps[dP]) :
          /\ dOps[dP][j].kind = "rect"
          /\ dLabels[dOps[dP][j].label].box.y
               + dLabels[dOps[dP][j].label].box.height = 800
          /\ \E m \in 1..Len(dLabels[dOps[dP][j].label].items) :
                /\ dLabels[dOps[dP][j].label].items[m].str = TextSome
                /\ Covers(dOps[dP][j], dLabels[dOps[dP][j].label].items[m], 800)

=============================================================================
